---- MODULE Spec2Model ----
(***************************************************************************)
(* Mouse Gestures content script (src/scripts/content.js): the gesture     *)
(* session state machine, its recognition geometry, its site gating and    *)
(* its action resolution, as a state machine over the fields of `state`.   *)
(***************************************************************************)
EXTENDS Integers, Sequences, FiniteSets, TLC

(***************************************************************************)
(* Bounds of the model.  Pointer positions lie on a grid of GridPx pixels. *)
(***************************************************************************)
GridPx == 8
MaxX == 1
MaxPoints == 2
MaxTokens == 2
MaxPending == 2

Pos == { <<x * GridPx, y * GridPx>> : x \in 0..MaxX, y \in {0, 1} }
\* the positions on the line y = 0
LinePos == { p \in Pos : p[2] = 0 }
\* the positions at which the buttons are pressed
DownPos == { p \in LinePos : p[1] <= GridPx }

(***************************************************************************)
(* Program constants: DEFAULTS.prefs and the clamp ranges of readAll.      *)
(***************************************************************************)
DefMinSegmentPx == 8
DefJitterPx == 4
DefSampleMinPx == 3
DefMovedPx == 3
MinSegLo == 6
MinSegHi == 60
JitterLo == 0
JitterHi == 20
SampleLo == 0
SampleHi == 10
MovedLo == 1
MovedHi == 20
RightButton == 2

DEFAULTS_prefs ==
  [minSegmentPx |-> DefMinSegmentPx, jitterPx |-> DefJitterPx,
   sampleMinPx |-> DefSampleMinPx, movedPx |-> DefMovedPx]

\* DEFAULTS.gestureMap: pattern -> action.
DEFAULTS_gestureMap ==
  [p \in {"L", "R", "U", "D"} |->
     CASE p = "L" -> "back" [] p = "R" -> "forward"
       [] p = "U" -> "top" [] p = "D" -> "bottom"]

\* Host names and rules are strings, modelled as sequences of characters.
Sub(label, host) == label \o <<".">> \o host
com == <<"c", "o", "m">>
github_com == Sub(<<"g", "i", "t", "h", "u", "b">>, com)
gist_github_com == Sub(<<"g", "i", "s", "t">>, github_com)
google_com == Sub(<<"g", "o", "o", "g", "l", "e">>, com)
docs_google_com == Sub(<<"d", "o", "c", "s">>, google_com)
drive_google_com == Sub(<<"d", "r", "i", "v", "e">>, google_com)
figma_com == Sub(<<"f", "i", "g", "m", "a">>, com)
example_com == Sub(<<"e", "x", "a", "m", "p", "l", "e">>, com)
sub_example_com == Sub(<<"s", "u", "b">>, example_com)
notexample_com == <<"n", "o", "t">> \o example_com
other_com == Sub(<<"o", "t", "h", "e", "r">>, com)
a_gist_github_com == Sub(<<"a">>, gist_github_com)
\* " Example.COM " as a stored rule
PaddedExampleCom ==
  <<" ", "E">> \o SubSeq(example_com, 2, Len(example_com) - 3) \o <<"C", "o", "m", " ">>

DEFAULT_POLICIES ==
  [h \in {github_com, gist_github_com, docs_google_com, drive_google_com, figma_com}
     |-> "require_alt"]

(***************************************************************************)
(* Small helpers of the language: object spread, property lookup, min/max. *)
(***************************************************************************)
Min(a, b) == IF a <= b THEN a ELSE b
Max(a, b) == IF a >= b THEN a ELSE b
Abs(a) == IF a < 0 THEN -a ELSE a

\* { ...a, ...b }
Spread(a, b) ==
  [k \in (DOMAIN a) \cup (DOMAIN b) |-> IF k \in DOMAIN b THEN b[k] ELSE a[k]]

\* obj[key] || ""   (a missing key and an empty value both give "")
\* Mutant: a key that is not there resolves to an action
Lookup_AnyEntry(obj, key) == IF key \in DOMAIN obj THEN obj[key] ELSE "back"
Lookup(obj, key) == IF key \in DOMAIN obj THEN obj[key] ELSE ""

(***************************************************************************)
(* Stored values.  A stored number is absent, not a finite number, or a    *)
(* number: [k |-> "absent" | "nan" | "num", v |-> Int].                    *)
(***************************************************************************)
Absent == [k |-> "absent", v |-> 0]
NaN == [k |-> "nan", v |-> 0]
Num(n) == [k |-> "num", v |-> n]

\* Mutant: a number is returned as it is stored
clamp_Unbounded(n, a, b) == IF n.k # "num" THEN a ELSE n.v

\* clamp(n, a, b) of a stored value that is there (not absent).
clamp(n, a, b) == IF n.k # "num" THEN a ELSE Min(b, Max(a, n.v))

\* One field of { ...DEFAULTS.prefs, ...cfgRaw.prefs } followed by its clamp.
PrefField(raw, def, a, b) == IF raw.k = "absent" THEN clamp(Num(def), a, b) ELSE clamp(raw, a, b)

NoPrefs == [minSegmentPx |-> Absent, jitterPx |-> Absent, sampleMinPx |-> Absent, movedPx |-> Absent]
EmptyMap == [p \in {} |-> ""]
EmptyPolicies == [h \in {} |-> ""]

\* What chrome.storage.local holds: ok = FALSE is a failing storage read.
EmptyStorage ==
  [ok |-> TRUE, enabled |-> "absent", mode |-> "absent", prefs |-> NoPrefs,
   gestureMap |-> EmptyMap, list |-> <<>>, policies |-> EmptyPolicies]

CfgReadFails == [EmptyStorage EXCEPT !.ok = FALSE]
CfgDisabled ==
  [EmptyStorage EXCEPT !.enabled = "false", !.mode = "whitelist",
                       !.list = <<example_com>>]
CfgJitter ==
  [EmptyStorage EXCEPT
     !.prefs = [minSegmentPx |-> Num(6), jitterPx |-> Num(20),
                sampleMinPx |-> Num(10), movedPx |-> Num(1)],
     !.gestureMap = [p \in {""} |-> "back"]]
CfgRemapped ==
  [EmptyStorage EXCEPT
     !.mode = "whitelist",
     !.list = <<example_com, gist_github_com>>,
     !.gestureMap = [p \in {"R", "L", "U"} |->
                       CASE p = "R" -> "back" [] p = "L" -> "forward" [] p = "U" -> "close_tab"],
     !.policies = [h \in {gist_github_com} |-> "normal"]]
CfgNoR ==
  [EmptyStorage EXCEPT
     !.gestureMap = [p \in {"R"} |-> ""],
     !.list = <<github_com>>]
CfgCoarse ==
  [EmptyStorage EXCEPT
     !.prefs = [minSegmentPx |-> Num(6), jitterPx |-> Num(4),
                sampleMinPx |-> Num(10), movedPx |-> Num(8)]]

StoredConfigs == {EmptyStorage, CfgReadFails, CfgDisabled, CfgRemapped, CfgNoR}
GeoConfigs == {EmptyStorage, CfgJitter, CfgCoarse}

\* readAll(): the configuration read from storage, defaults filled in and clamped.
readAll(raw) ==
  IF ~raw.ok
  THEN [enabled |-> TRUE, mode |-> "blacklist", prefs |-> DEFAULTS_prefs,
        gestureMap |-> DEFAULTS_gestureMap, list |-> <<>>, policies |-> DEFAULT_POLICIES]
  ELSE [enabled |-> IF raw.enabled \in {"true", "false"} THEN raw.enabled = "true" ELSE TRUE,
        mode |-> IF raw.mode \in {"whitelist", "blacklist"} THEN raw.mode ELSE "blacklist",
        prefs |-> [minSegmentPx |-> PrefField(raw.prefs.minSegmentPx, DefMinSegmentPx, MinSegLo, MinSegHi),
                   jitterPx |-> PrefField(raw.prefs.jitterPx, DefJitterPx, JitterLo, JitterHi),
                   sampleMinPx |-> PrefField(raw.prefs.sampleMinPx, DefSampleMinPx, SampleLo, SampleHi),
                   movedPx |-> PrefField(raw.prefs.movedPx, DefMovedPx, MovedLo, MovedHi)],
        gestureMap |-> Spread(DEFAULTS_gestureMap, raw.gestureMap),
        list |-> raw.list,
        policies |-> Spread(DEFAULT_POLICIES, raw.policies)]

(***************************************************************************)
(* Event inputs: the element under the pointer.                            *)
(***************************************************************************)
Targets == {"div", "input", "a", "a_nohref"}
Buttons == {0, RightButton}
PageHosts == {example_com, gist_github_com}

\* closestEditableOrEditor(el) is non-null
closestEditableOrEditor(t) == t = "input"

\* getLinkHref(target): the absolute URL of the closest a[href], "" if none.
getLinkHref(t) == IF t = "a" THEN "https://x.test/a" ELSE ""

VARIABLES
  locationHost,         \* host of location.href
  enabled, mode, list, prefs, gestureMap, policies,
  tracking, moved, points, tokens, startTarget,
  lastTokenIndex,       \* state._lastTokenIndex, -1 while never assigned
  suppressContextOnce,
  raf,                  \* state.raf: 0, or the handle of the pending frame
  frames,               \* the callbacks requestAnimationFrame holds, oldest first:
                        \* TRUE when a later scheduleTrailRender found it pending
  pending,              \* endGesture calls suspended in their await: "cur" for a call
                        \* of the latest session, "old" for one of an earlier session
  phase,                \* what became of the latest session
  execCur,              \* execAction calls made for the latest session
  emit,                 \* the execAction call made by the last step, if any
  box,                  \* the bounding box of the pointer positions delivered to
                        \* the latest session
  cfgChanged,           \* a refresh changed prefs or gestureMap since the latest session began
  startConfig,          \* prefs and gestureMap in force at the mousedown of the session
                        \* being tracked, the current ones while none is tracked
  arg,                  \* the argument of the function under study
  ret,                  \* the value it returned, NoRet before the call
  left                  \* the left-button link swipe of the string-pattern content
                        \* script: leftActive, leftPointerId, leftStart, leftHref,
                        \* leftTriggered; its suspended pointerup handlers and pending
                        \* timers; and what became of the latest click

config == <<enabled, mode, list, prefs, gestureMap, policies>>
session == <<tracking, moved, points, tokens, startTarget>>
env == <<locationHost, arg, ret, left>>
vars == <<env, config, session, lastTokenIndex, suppressContextOnce,
          raf, frames, pending, phase, execCur, emit, box, cfgChanged, startConfig>>
ghost == <<phase, execCur, box, cfgChanged, startConfig>>

\* a step of a handler that leaves the configuration alone
keepSnapshot == startConfig' = IF tracking' THEN startConfig ELSE <<prefs, gestureMap>>

NoEmit == [action |-> "", href |-> ""]
NoArg == <<>>
\* the link swipe before any pointer event: opened is whether a pointerup sent
\* new_tab since the previous click, lastClick what the click listener did last
LeftIdle ==
  [active |-> FALSE, pointerId |-> 0, start |-> <<>>, href |-> "", triggered |-> FALSE,
   awaiting |-> 0, timers |-> 0, opened |-> FALSE, lastClick |-> "none"]
NoRet == [k |-> "none"]

\* the smallest box around a set of positions
NoBox == [xlo |-> 0, xhi |-> 0, ylo |-> 0, yhi |-> 0]
BoxOf(p) == [xlo |-> p[1], xhi |-> p[1], ylo |-> p[2], yhi |-> p[2]]
BoxWith(bx, p) ==
  [xlo |-> IF p[1] < bx.xlo THEN p[1] ELSE bx.xlo, xhi |-> IF p[1] > bx.xhi THEN p[1] ELSE bx.xhi,
   ylo |-> IF p[2] < bx.ylo THEN p[2] ELSE bx.ylo, yhi |-> IF p[2] > bx.yhi THEN p[2] ELSE bx.yhi]


(***************************************************************************)
(* Site gating.                                                            *)
(***************************************************************************)
\* String operations on sequences of characters.
Whitespace == {" "}
UpperCase == {"E", "C"}
LowerOf == [c \in UpperCase |-> IF c = "E" THEN "e" ELSE "c"]

RECURSIVE trimStart(_)
trimStart(s) == IF s # <<>> /\ s[1] \in Whitespace THEN trimStart(Tail(s)) ELSE s
RECURSIVE trimEnd(_)
trimEnd(s) ==
  IF s # <<>> /\ s[Len(s)] \in Whitespace THEN trimEnd(SubSeq(s, 1, Len(s) - 1)) ELSE s
trim(s) == trimEnd(trimStart(s))
toLowerCase(s) ==
  IF \A i \in DOMAIN s : s[i] \notin UpperCase THEN s
  ELSE [i \in DOMAIN s |-> IF s[i] \in UpperCase THEN LowerOf[s[i]] ELSE s[i]]
endsWith(s, suffix) ==
  /\ Len(suffix) <= Len(s)
  /\ SubSeq(s, Len(s) - Len(suffix) + 1, Len(s)) = suffix

\* host.split("."): the parts between the dots; cur is the part being read
RECURSIVE splitFrom(_, _, _)
splitFrom(s, i, cur) ==
  IF i > Len(s) THEN <<cur>>
  ELSE IF s[i] = "." THEN <<cur>> \o splitFrom(s, i + 1, <<>>)
  ELSE splitFrom(s, i + 1, Append(cur, s[i]))
split(s) == splitFrom(s, 1, <<>>)

\* parts.join(".")
RECURSIVE joinDot(_)
joinDot(parts) ==
  IF parts = <<>> THEN <<>>
  ELSE IF Len(parts) = 1 THEN parts[1]
  ELSE parts[1] \o <<".">> \o joinDot(Tail(parts))

normalizeHost(host) == toLowerCase(trim(host))

\* Mutant: the rule is matched as a plain suffix, without the dot before it
hostMatchesRule_PlainSuffix(host, rule) ==
  LET h == normalizeHost(host)
      r == normalizeHost(rule)
  IN h # <<>> /\ r # <<>> /\ endsWith(h, r)

hostMatchesRule(host, rule) ==
  LET h == normalizeHost(host)
      r == normalizeHost(rule)
  IN /\ h # <<>> /\ r # <<>>
     /\ (h = r \/ endsWith(h, <<".">> \o r))

\* parts.slice(i).join("."), i counted from 0
candidateAt(parts, i) == joinDot(SubSeq(parts, i + 1, Len(parts)))

\* Mutant: the parent domains are tried from the least specific one
RECURSIVE parentPolicy_ShortestFirst(_, _)
parentPolicy_ShortestFirst(parts, i) ==
  IF i < 1 \/ i >= Len(parts) - 1 THEN "normal"
  ELSE IF candidateAt(parts, Len(parts) - 1 - i) \in DOMAIN policies
       THEN policies[candidateAt(parts, Len(parts) - 1 - i)]
       ELSE parentPolicy_ShortestFirst(parts, i + 1)

\* the loop of getSitePolicy: for (i = 1; i < parts.length - 1; i++)
RECURSIVE parentPolicy(_, _)
parentPolicy(parts, i) ==
  IF i >= Len(parts) - 1 THEN "normal"
  ELSE IF candidateAt(parts, i) \in DOMAIN policies THEN policies[candidateAt(parts, i)]
  ELSE parentPolicy(parts, i + 1)

\* getSitePolicy(host).behavior
getSitePolicy(host) ==
  LET h == normalizeHost(host) IN
  IF h = <<>> THEN "normal"
  ELSE IF h \in DOMAIN policies THEN policies[h]
  ELSE parentPolicy(split(h), 1)

\* Mutant: the enabled switch is not consulted
isAllowedOnThisSite_IgnoresEnabled ==
  IF getSitePolicy(locationHost) = "disabled" THEN FALSE
  ELSE LET match == \E i \in DOMAIN list : hostMatchesRule(locationHost, list[i])
       IN IF mode = "blacklist" THEN ~match ELSE match

\* Mutant: the list is applied as a blacklist in both modes
isAllowedOnThisSite_NoInversion ==
  IF ~enabled THEN FALSE
  ELSE IF getSitePolicy(locationHost) = "disabled" THEN FALSE
  ELSE ~(\E i \in DOMAIN list : hostMatchesRule(locationHost, list[i]))

isAllowedOnThisSite ==
  IF ~enabled THEN FALSE
  ELSE IF getSitePolicy(locationHost) = "disabled" THEN FALSE
  ELSE LET match == \E i \in DOMAIN list : hostMatchesRule(locationHost, list[i])
       IN IF mode = "blacklist" THEN ~match ELSE match

\* Mutant: the Alt requirement is never applied
shouldRequireAltHere_Never == FALSE
\* Mutant: only the entry of the exact host is consulted
shouldRequireAltHere_ExactOnly ==
  locationHost \in DOMAIN policies /\ policies[locationHost] = "require_alt"
shouldRequireAltHere == getSitePolicy(locationHost) = "require_alt"

(***************************************************************************)
(* Geometry.  Coordinates are integers; dist(a, b) >= t is compared on the *)
(* squares.  Angles are compared through the tangents of the thresholds,   *)
(* in thousandths (exact for the coordinates of the grid).                 *)
(***************************************************************************)
Tan85Milli == 11430
Tan40Milli == 839
Tan15Milli == 268
Tan75Milli == 3732

Dist2(a, b) == (a[1] - b[1]) * (a[1] - b[1]) + (a[2] - b[2]) * (a[2] - b[2])
\* dist(a, b) >= t
\* Mutant: every distance passes the threshold
DistGeq_Always(a, b, t) == TRUE
DistGeq(a, b, t) == Dist2(a, b) >= t * t

\* |ang| <= 85 || |ang - 180| <= 85 || |ang + 180| <= 85, ang = atan2(dy, dx) in degrees
AngHorizontal(dx, dy) ==
  \/ dx = 0 /\ dy = 0
  \/ dx # 0 /\ Abs(dy) * 1000 <= Abs(dx) * Tan85Milli
\* |ang - 90| <= 40 || |ang + 90| <= 40
AngVertical(dx, dy) == dy # 0 /\ Abs(dx) * 1000 <= Abs(dy) * Tan40Milli
\* |ang -+ 45| <= 30, |ang -+ 135| <= 30 once the signs of dx and dy are known
AngDiagonal(dx, dy) ==
  /\ dx # 0 /\ dy # 0
  /\ Abs(dy) * 1000 >= Abs(dx) * Tan15Milli
  /\ Abs(dy) * 1000 <= Abs(dx) * Tan75Milli

\* Mutant: a displacement of exactly jitter is treated as jitter
dir8_JitterInclusive(dx, dy, jitter) ==
  IF Abs(dx) <= jitter /\ Abs(dy) <= jitter THEN ""
  ELSE IF AngHorizontal(dx, dy) THEN (IF dx >= 0 THEN "R" ELSE "L")
  ELSE IF AngVertical(dx, dy) THEN (IF dy >= 0 THEN "D" ELSE "U")
  ELSE IF AngDiagonal(dx, dy) /\ dx > 0 /\ dy > 0 THEN "DR"
  ELSE IF AngDiagonal(dx, dy) /\ dx > 0 /\ dy < 0 THEN "UR"
  ELSE IF AngDiagonal(dx, dy) /\ dx < 0 /\ dy > 0 THEN "DL"
  ELSE IF AngDiagonal(dx, dy) /\ dx < 0 /\ dy < 0 THEN "UL"
  ELSE ""

dir8(dx, dy, jitter) ==
  IF Abs(dx) < jitter /\ Abs(dy) < jitter THEN ""
  ELSE IF AngHorizontal(dx, dy) THEN (IF dx >= 0 THEN "R" ELSE "L")
  ELSE IF AngVertical(dx, dy) THEN (IF dy >= 0 THEN "D" ELSE "U")
  ELSE IF AngDiagonal(dx, dy) /\ dx > 0 /\ dy > 0 THEN "DR"
  ELSE IF AngDiagonal(dx, dy) /\ dx > 0 /\ dy < 0 THEN "UR"
  ELSE IF AngDiagonal(dx, dy) /\ dx < 0 /\ dy > 0 THEN "DL"
  ELSE IF AngDiagonal(dx, dy) /\ dx < 0 /\ dy < 0 THEN "UL"
  ELSE ""

\* tokens.join("")
RECURSIVE Join(_)
Join(s) == IF s = <<>> THEN "" ELSE Head(s) \o Join(Tail(s))

(***************************************************************************)
(* State after init(): the first refreshConfig has completed and the       *)
(* listeners are attached.                                                 *)
(***************************************************************************)
PageInit(hosts, stored) ==
  /\ locationHost \in hosts
  /\ \E raw \in stored :
       LET c == readAll(raw) IN
       /\ enabled = c.enabled /\ mode = c.mode /\ list = c.list
       /\ prefs = c.prefs /\ gestureMap = c.gestureMap /\ policies = c.policies
  /\ left = LeftIdle
  /\ tracking = FALSE /\ moved = FALSE /\ points = <<>> /\ tokens = <<>>
  /\ startTarget = "null"
  /\ lastTokenIndex = -1
  /\ suppressContextOnce = FALSE
  /\ raf = 0 /\ frames = <<>>
  /\ pending = <<>>
  /\ phase = "none" /\ execCur = 0 /\ emit = NoEmit
  /\ box = NoBox /\ cfgChanged = FALSE /\ startConfig = <<prefs, gestureMap>>

\* the content script alone: no other function is under study
InitFrom(hosts, stored) == PageInit(hosts, stored) /\ arg = NoArg /\ ret = NoRet

Init == InitFrom(PageHosts, StoredConfigs)

\* scheduleTrailRender(): at most one frame is requested
\* Mutant: a frame is requested on every call
scheduleTrailRender_EveryCall ==
  /\ raf' = 1
  /\ frames' = Append(frames, FALSE)
scheduleTrailRender ==
  IF raf # 0
  THEN /\ raf' = raf
       /\ frames' = [i \in DOMAIN frames |-> TRUE]
  ELSE /\ raf' = 1
       /\ frames' = Append(frames, FALSE)

\* drawComet(points) draws something: it returns early below two points
drawCometDraws(pts) == Len(pts) >= 2

\* the requestAnimationFrame callback
RafFire ==
  /\ frames # <<>>
  /\ frames' = Tail(frames)
  /\ raf' = 0
  /\ emit' = NoEmit
  /\ UNCHANGED <<session, env, config, lastTokenIndex, suppressContextOnce,
                 pending, ghost>>

\* Mutant: cancelGesture leaves tracking set
cancelGesture_KeepsTracking ==
  /\ tracking' = tracking /\ moved' = FALSE /\ points' = <<>> /\ tokens' = <<>>
  /\ startTarget' = "null"
  /\ suppressContextOnce' = FALSE

\* Mutant: cancelGesture leaves the tokens in place
cancelGesture_KeepsTokens ==
  /\ tracking' = FALSE /\ moved' = FALSE /\ points' = <<>> /\ tokens' = tokens
  /\ startTarget' = "null"
  /\ suppressContextOnce' = FALSE

\* cancelGesture(): the fields it assigns
cancelGesture ==
  /\ tracking' = FALSE /\ moved' = FALSE /\ points' = <<>> /\ tokens' = <<>>
  /\ startTarget' = "null"
  /\ suppressContextOnce' = FALSE

\* startGesture(e): e.button, e.altKey, e.target, (e.clientX, e.clientY)
startGesture(b, alt, t, p) ==
  IF \/ b # RightButton
     \/ shouldRequireAltHere /\ ~alt
     \/ closestEditableOrEditor(t)
     \/ ~isAllowedOnThisSite
  THEN /\ emit' = NoEmit
       /\ UNCHANGED <<session, env, config, lastTokenIndex,
                      suppressContextOnce, raf, frames, pending, ghost>>
  ELSE /\ tracking' = TRUE /\ moved' = FALSE /\ points' = <<p>> /\ tokens' = <<>>
       /\ startTarget' = t
       /\ scheduleTrailRender
       /\ pending' = [i \in DOMAIN pending |-> "old"]
       /\ phase' = "tracking" /\ execCur' = 0 /\ emit' = NoEmit
       /\ box' = BoxOf(p) /\ cfgChanged' = FALSE /\ startConfig' = <<prefs, gestureMap>>
       /\ UNCHANGED <<env, config, lastTokenIndex, suppressContextOnce>>

\* Mutant: the token is appended without comparing it to the last token
pushToken_NoDedup(toks, d) == Append(toks, d)

\* the token step of updateGesture: d is appended unless it repeats the last token
pushToken(toks, d) ==
  LET lastToken == IF toks = <<>> THEN "" ELSE toks[Len(toks)]
  IN IF d # lastToken THEN Append(toks, d) ELSE toks

\* updateGesture(e): e.target, (e.clientX, e.clientY)
updateGesture(t, p) ==
  IF ~tracking
  THEN /\ emit' = NoEmit
       /\ UNCHANGED <<session, env, config, lastTokenIndex,
                      suppressContextOnce, raf, frames, pending, ghost>>
  ELSE IF closestEditableOrEditor(t)
  THEN /\ cancelGesture
       /\ phase' = IF phase = "awaiting" THEN "cancelled_late" ELSE "cancelled"
       /\ emit' = NoEmit
       /\ UNCHANGED <<env, config, lastTokenIndex, raf, frames, pending, execCur,
                      box, cfgChanged>>
       /\ keepSnapshot
  ELSE LET last == points[Len(points)]
           pts == IF DistGeq(last, p, prefs.sampleMinPx) THEN Append(points, p) ELSE points
           first == pts[1]
           mv == IF ~moved THEN DistGeq(first, p, prefs.movedPx) ELSE moved
           minSeg == prefs.minSegmentPx
           jitter == prefs.jitterPx
           anchorIndex == IF Len(tokens) = 0 THEN 0 ELSE lastTokenIndex
           anchor == IF anchorIndex + 1 \in DOMAIN pts THEN pts[anchorIndex + 1] ELSE pts[1]
           reached == DistGeq(anchor, p, minSeg)
           d == dir8(p[1] - anchor[1], p[2] - anchor[2], jitter)
       IN /\ Len(pts) <= MaxPoints
          /\ points' = pts
          /\ moved' = mv
          /\ IF reached /\ d # ""
             THEN /\ tokens' = pushToken(tokens, d)
                  /\ lastTokenIndex' = Len(pts) - 1
             ELSE UNCHANGED <<tokens, lastTokenIndex>>
          /\ Len(tokens') <= MaxTokens
          /\ scheduleTrailRender
          /\ emit' = NoEmit
          /\ box' = BoxWith(box, p)
          /\ UNCHANGED <<env, config, tracking, startTarget,
                         suppressContextOnce, pending, phase, execCur, cfgChanged>>
          /\ keepSnapshot

\* execAction(action, gestureTarget) suspends on chrome.runtime.sendMessage
execAwaits(action) == action \in {"new_tab", "close_tab"}
\* the href execAction sends with new_tab
execHref(action, target) == IF action = "new_tab" THEN getLinkHref(target) ELSE ""

\* endGesture(e): the action it resolves from the pattern and the start target
resolveAction(pattern) ==
  IF pattern = "R" /\ startTarget # "null" /\ getLinkHref(startTarget) # ""
  THEN "new_tab"
  ELSE Lookup(gestureMap, pattern)

\* endGesture(e) on a session that has not moved: a plain click
endGestureClick ==
  /\ cancelGesture
  /\ phase' = "click"
  /\ emit' = NoEmit
  /\ UNCHANGED <<env, config, lastTokenIndex, raf, frames, pending, execCur,
                 box, cfgChanged>>
  /\ keepSnapshot

\* endGesture(e) on a session that has moved: up to its await or, when nothing
\* is awaited, to its end
endGestureFinalize ==
  LET pattern == Join(tokens)
      action == resolveAction(pattern)
  IN /\ suppressContextOnce' = TRUE
     /\ IF action # ""
        THEN /\ execCur' = execCur + 1
             /\ emit' = [action |-> action, href |-> execHref(action, startTarget)]
        ELSE /\ emit' = NoEmit
             /\ UNCHANGED execCur
     /\ IF execAwaits(action)
        THEN /\ Len(pending) < MaxPending
             /\ pending' = Append(pending, "cur")
             /\ phase' = "awaiting"
             /\ UNCHANGED <<session, lastTokenIndex>>
        ELSE /\ tracking' = FALSE /\ moved' = FALSE /\ points' = <<>>
             /\ tokens' = <<>> /\ lastTokenIndex' = 0 /\ startTarget' = "null"
             \* execAction returned, or it threw into the catch of endGesture
             /\ \E ok \in BOOLEAN : phase' = IF ok \/ action = "" THEN "done" ELSE "failed"
             /\ UNCHANGED pending
     /\ UNCHANGED <<env, config, raf, frames, box, cfgChanged>>
     /\ keepSnapshot

\* Mutant: the moved flag is not consulted
endGesture_IgnoresMoved(b) ==
  IF ~tracking
  THEN /\ emit' = NoEmit
       /\ UNCHANGED <<session, env, config, lastTokenIndex,
                      suppressContextOnce, raf, frames, pending, ghost>>
  ELSE endGestureFinalize

\* endGesture(e), e.button
endGesture(b) ==
  IF ~tracking
  THEN /\ emit' = NoEmit
       /\ UNCHANGED <<session, env, config, lastTokenIndex,
                      suppressContextOnce, raf, frames, pending, ghost>>
  ELSE IF ~moved THEN endGestureClick
  ELSE endGestureFinalize

\* Mutant: a rejected message is not caught, the rest of endGesture is skipped
endGestureResume_NoCatch(i, ok) ==
  /\ i \in DOMAIN pending
  /\ pending' = SubSeq(pending, 1, i - 1) \o SubSeq(pending, i + 1, Len(pending))
  /\ IF ok
     THEN /\ tracking' = FALSE /\ moved' = FALSE /\ points' = <<>> /\ tokens' = <<>>
          /\ lastTokenIndex' = 0 /\ startTarget' = "null"
     ELSE UNCHANGED <<session, lastTokenIndex>>
  /\ phase' = IF ~tracking THEN phase
              ELSE IF pending[i] = "old" THEN "destroyed"
              ELSE IF ok THEN "done" ELSE "failed"
  /\ emit' = NoEmit
  /\ UNCHANGED <<env, config, suppressContextOnce, raf, frames, execCur, box, cfgChanged>>
  /\ keepSnapshot

\* endGesture resumed after its await: the sendMessage of call i has settled,
\* fulfilled (ok) or rejected into the catch of execAction
endGestureResume(i, ok) ==
  /\ i \in DOMAIN pending
  /\ pending' = SubSeq(pending, 1, i - 1) \o SubSeq(pending, i + 1, Len(pending))
  /\ tracking' = FALSE /\ moved' = FALSE /\ points' = <<>> /\ tokens' = <<>>
  /\ lastTokenIndex' = 0 /\ startTarget' = "null"
  /\ phase' = IF ~tracking THEN phase
              ELSE IF pending[i] = "old" THEN "destroyed"
              ELSE IF ok THEN "done" ELSE "failed"
  /\ emit' = NoEmit
  /\ UNCHANGED <<env, config, suppressContextOnce, raf, frames, execCur, box, cfgChanged>>
  /\ keepSnapshot

onContextMenu ==
  /\ suppressContextOnce' = FALSE
  /\ emit' = NoEmit
  /\ UNCHANGED <<session, env, config, lastTokenIndex, raf, frames, pending, ghost>>

\* Mutant: the refresh also empties the recorded points and tokens
refreshConfig_ResetsSession(raw) ==
  LET c == readAll(raw) IN
  /\ UNCHANGED <<env, tracking, startTarget, lastTokenIndex, suppressContextOnce, raf, frames,
                 pending, phase, execCur, box>>
  /\ enabled' = c.enabled
  /\ mode' = c.mode
  /\ prefs' = Spread(DEFAULTS_prefs, c.prefs)
  /\ gestureMap' = Spread(DEFAULTS_gestureMap, c.gestureMap)
  /\ list' = c.list
  /\ policies' = Spread(DEFAULT_POLICIES, c.policies)
  /\ emit' = NoEmit
  /\ cfgChanged' = (cfgChanged \/ (phase # "none" /\ <<prefs', gestureMap'>> # <<prefs, gestureMap>>))
  /\ startConfig' = IF tracking THEN startConfig ELSE <<prefs', gestureMap'>>
  /\ moved' = FALSE /\ points' = <<>> /\ tokens' = <<>>

\* refreshConfig(), from its await of readAll() to its end
refreshConfig(raw) ==
  LET c == readAll(raw) IN
  /\ UNCHANGED <<session, lastTokenIndex, suppressContextOnce, env, raf, frames,
                 pending, phase, execCur, box>>
  /\ enabled' = c.enabled
  /\ mode' = c.mode
  /\ prefs' = Spread(DEFAULTS_prefs, c.prefs)
  /\ gestureMap' = Spread(DEFAULTS_gestureMap, c.gestureMap)
  /\ list' = c.list
  /\ policies' = Spread(DEFAULT_POLICIES, c.policies)
  /\ emit' = NoEmit
  /\ cfgChanged' = (cfgChanged \/ (phase # "none" /\ <<prefs', gestureMap'>> # <<prefs, gestureMap>>))
  /\ startConfig' = IF tracking THEN startConfig ELSE <<prefs', gestureMap'>>

(***************************************************************************)
(* Spec: every event, pointer positions on one line.                       *)
(***************************************************************************)
MoveTargets == {"div", "input"}

MouseDown == \E b \in Buttons, alt \in BOOLEAN, t \in Targets, p \in DownPos : startGesture(b, alt, t, p)
MouseMove == \E t \in MoveTargets, p \in LinePos : updateGesture(t, p)
MouseUp == \E b \in Buttons : endGesture(b)
\* Mutant: no awaited message ever settles
Resume_Never == FALSE /\ UNCHANGED vars
Resume == \E i \in 1..MaxPending, ok \in BOOLEAN : endGestureResume(i, ok)
ContextMenu == onContextMenu
Refresh == \E raw \in StoredConfigs : refreshConfig(raw)

Next ==
  \/ MouseDown
  \/ MouseMove
  \/ MouseUp
  \/ Resume
  \/ ContextMenu
  \/ RafFire
  \/ Refresh

Spec == Init /\ [][Next]_vars

\* Every awaited message settles.
LiveSpec == Spec /\ WF_vars(Resume)

(***************************************************************************)
(* GeoSpec: the recognition geometry, pointer positions on the grid, every *)
(* gesture started with the right button on a plain element.               *)
(***************************************************************************)
GeoInit == InitFrom({example_com}, GeoConfigs)

GeoDown == \E p \in Pos : startGesture(RightButton, FALSE, "div", p)
GeoMove == \E p \in Pos : updateGesture("div", p)
GeoUp == endGesture(RightButton)
GeoRefresh == \E raw \in GeoConfigs : refreshConfig(raw)

GeoNext ==
  \/ GeoDown
  \/ GeoMove
  \/ GeoUp
  \/ GeoRefresh

GeoSpec == GeoInit /\ [][GeoNext]_vars


(***************************************************************************)
(* GateSpec: the gates of startGesture under every combination of the      *)
(* enabled switch, the mode, the domain list and the site policies.        *)
(***************************************************************************)
GateHosts ==
  {example_com, sub_example_com, notexample_com, other_com,
   github_com, gist_github_com, a_gist_github_com, com}
GateLists ==
  { <<>>, <<example_com>>, <<PaddedExampleCom, github_com>>, <<<<" ">>, gist_github_com>> }
GatePolicies ==
  { EmptyPolicies,
    [h \in {com} |-> "disabled"],
    [h \in {example_com, sub_example_com} |-> IF h = example_com THEN "disabled" ELSE "require_alt"],
    [h \in {github_com, gist_github_com} |-> IF h = github_com THEN "disabled" ELSE "normal"] }
GateConfigs ==
  { [EmptyStorage EXCEPT !.enabled = e, !.mode = m, !.list = l, !.policies = pol] :
      e \in {"true", "false"}, m \in {"blacklist", "whitelist"},
      l \in GateLists, pol \in GatePolicies }

GateInit == InitFrom(GateHosts, GateConfigs)
GateDown == MouseDown
GateUp == MouseUp

GateNext ==
  \/ GateDown
  \/ GateUp

GateSpec == GateInit /\ [][GateNext]_vars

(***************************************************************************)
(* normalizePattern of the string-pattern content script: a pattern is a   *)
(* string of the letters L, R, U, D, here a sequence of characters.        *)
(***************************************************************************)
MaxPatternLen == 4
PatternChars == {"L", "R", "U", "D", "r", "x"}
Patterns == UNION { [1..n -> PatternChars] : n \in 0..MaxPatternLen }

\* String.prototype.toUpperCase on the characters of a pattern
UpperOf(c) ==
  CASE c = "l" -> "L" [] c = "r" -> "R" [] c = "u" -> "U" [] c = "d" -> "D" [] OTHER -> c
toUpperCase(str) == [i \in DOMAIN str |-> UpperOf(str[i])]

\* the loop of normalizePattern: keep the letters of "LRUD", drop a letter equal
\* to the last one kept
RECURSIVE compactFrom(_, _, _)
compactFrom(pattern, i, compact) ==
  IF i > Len(pattern) THEN compact
  ELSE LET c == pattern[i] IN
       compactFrom(pattern, i + 1,
         IF c \in {"L", "R", "U", "D"} /\ (compact = <<>> \/ compact[Len(compact)] # c)
         THEN Append(compact, c) ELSE compact)

\* Mutant: a two-letter pattern is always written the other way round
swapPair_Always(compact) == <<compact[2], compact[1]>>
\* Mutant: a two-letter pattern is left as it came
swapPair_Never(compact) == compact
\* the four rewrites of a two-letter pattern: RU, RD, LU, LD become UR, DR, UL, DL
swapPair(compact) ==
  IF compact \in {<<"R", "U">>, <<"R", "D">>, <<"L", "U">>, <<"L", "D">>}
  THEN <<compact[2], compact[1]>>
  ELSE compact

normalizePattern(pattern) ==
  LET up == toUpperCase(pattern) IN
  IF up = <<>> THEN <<>>
  ELSE LET compact == compactFrom(up, 1, <<>>) IN
       IF Len(compact) = 2 THEN swapPair(compact) ELSE compact

(***************************************************************************)
(* PatSpec: normalizePattern applied to every pattern within the bound,    *)
(* and applied again to what it returned.                                  *)
(***************************************************************************)
PatInit ==
  /\ PageInit({example_com}, {EmptyStorage})
  /\ arg \in Patterns
  /\ ret = NoRet

Normalize ==
  /\ ret = NoRet
  /\ ret' = [k |-> "pattern", v |-> normalizePattern(arg)]
  /\ UNCHANGED <<locationHost, left, arg, config, session, lastTokenIndex, suppressContextOnce,
                 raf, frames, pending, emit, ghost>>

Renormalize ==
  /\ ret # NoRet
  /\ arg' = ret.v
  /\ ret' = NoRet
  /\ UNCHANGED <<locationHost, left, config, session, lastTokenIndex, suppressContextOnce,
                 raf, frames, pending, emit, ghost>>

PatNext ==
  \/ Normalize
  \/ Renormalize

PatSpec == PatInit /\ [][PatNext]_vars

(***************************************************************************)
(* ReadSpec: readAll applied to stored preferences whose four thresholds   *)
(* are each absent, not a finite number, or a number below, inside or      *)
(* above the range.                                                        *)
(***************************************************************************)
StoredPrefValues == {Absent, NaN, Num(0), Num(7), Num(100)}
StoredPrefs ==
  [minSegmentPx : StoredPrefValues, jitterPx : StoredPrefValues,
   sampleMinPx : StoredPrefValues, movedPx : StoredPrefValues]

ReadInit ==
  /\ PageInit({example_com}, {EmptyStorage})
  /\ arg \in { [EmptyStorage EXCEPT !.prefs = sp] : sp \in StoredPrefs }
  /\ ret = NoRet

ReadAll ==
  /\ ret = NoRet
  /\ ret' = [k |-> "config", v |-> readAll(arg)]
  /\ UNCHANGED <<locationHost, left, arg, config, session, lastTokenIndex, suppressContextOnce,
                 raf, frames, pending, emit, ghost>>

ReadNext ==
  \/ ReadAll

ReadSpec == ReadInit /\ [][ReadNext]_vars

(***************************************************************************)
(* The options page: the domain list it stores when the list is saved from *)
(* the text box and when a settings file is imported.                      *)
(***************************************************************************)
MaxRawLen == 5
RawChars == {"E", " ", "/", ":", "\n"}
RawTexts == UNION { [1..n -> RawChars] : n \in 0..MaxRawLen }

\* raw.split("\n"); cur is the line being read
RECURSIVE splitLinesFrom(_, _, _)
splitLinesFrom(raw, i, cur) ==
  IF i > Len(raw) THEN <<cur>>
  ELSE IF raw[i] = "\n" THEN <<cur>> \o splitLinesFrom(raw, i + 1, <<>>)
  ELSE splitLinesFrom(raw, i + 1, Append(cur, raw[i]))
splitLines(raw) == splitLinesFrom(raw, 1, <<>>)

\* s.includes(sub)
includes(s, sub) ==
  \E i \in 1..(Len(s) - Len(sub) + 1) : SubSeq(s, i, i + Len(sub) - 1) = sub

isValidHost(h) ==
  LET s == normalizeHost(h) IN
  IF s = <<>> THEN FALSE
  ELSE IF includes(s, <<":", "/", "/">>) THEN FALSE
  ELSE IF includes(s, <<"/">>) THEN FALSE
  ELSE TRUE

\* arr.map(f), arr.filter(f)
mapNormalizeHost(arr) == [i \in DOMAIN arr |-> normalizeHost(arr[i])]
RECURSIVE filterValidHost(_)
filterValidHost(arr) ==
  IF arr = <<>> THEN <<>>
  ELSE IF isValidHost(Head(arr)) THEN <<Head(arr)>> \o filterValidHost(Tail(arr))
  ELSE filterValidHost(Tail(arr))

\* Array.from(new Set(...)): the first occurrence of each element, in order
RECURSIVE setOrder(_, _)
setOrder(arr, seen) ==
  IF arr = <<>> THEN seen
  ELSE setOrder(Tail(arr),
                IF \E i \in DOMAIN seen : seen[i] = Head(arr) THEN seen
                ELSE Append(seen, Head(arr)))
RECURSIVE filterBoolean(_)
filterBoolean(arr) ==
  IF arr = <<>> THEN <<>>
  ELSE IF Head(arr) # <<>> THEN <<Head(arr)>> \o filterBoolean(Tail(arr))
  ELSE filterBoolean(Tail(arr))
\* Mutant: the entries are not put through a Set
uniq_NoSet(arr) == filterBoolean(arr)
uniq(arr) == setOrder(filterBoolean(arr), <<>>)

\* the list the click handler of saveBlacklistBtn writes
saveList(raw) == uniq(filterValidHost(mapNormalizeHost(splitLines(raw))))
\* the list the change handler of importFile writes
\* (incomingList: isArray is Array.isArray(incomingList), items its elements)
importList(incomingList) ==
  IF ~incomingList.isArray THEN <<>>
  ELSE uniq(filterValidHost(mapNormalizeHost(incomingList.items)))

(***************************************************************************)
(* OptSpec: the list is saved from every text within the bound, and        *)
(* imported from every array of strings within the bound.                  *)
(***************************************************************************)
OptInit ==
  /\ PageInit({example_com}, {EmptyStorage})
  /\ arg \in { [op |-> "save", raw |-> raw] : raw \in RawTexts }
         \cup { [op |-> "import", list |-> [isArray |-> TRUE, items |-> splitLines(raw)]] :
                  raw \in RawTexts }
         \cup { [op |-> "import", list |-> [isArray |-> FALSE, items |-> <<>>]] }
  /\ ret = NoRet

SaveList ==
  /\ ret = NoRet /\ arg.op = "save"
  /\ ret' = [k |-> "list", v |-> saveList(arg.raw)]
  /\ UNCHANGED <<locationHost, left, arg, config, session, lastTokenIndex, suppressContextOnce,
                 raf, frames, pending, emit, ghost>>

ImportSettings ==
  /\ ret = NoRet /\ arg.op = "import"
  /\ ret' = [k |-> "list", v |-> importList(arg.list)]
  /\ UNCHANGED <<locationHost, left, arg, config, session, lastTokenIndex, suppressContextOnce,
                 raf, frames, pending, emit, ghost>>

OptNext ==
  \/ SaveList
  \/ ImportSettings

OptSpec == OptInit /\ [][OptNext]_vars

(***************************************************************************)
(* PrefSpec: the configuration is refreshed any number of times from       *)
(* storage whose thresholds are absent, not finite, or below, inside or    *)
(* above their range, and from a storage read that fails.                  *)
(***************************************************************************)
PrefConfigs == { [EmptyStorage EXCEPT !.prefs = sp] : sp \in StoredPrefs } \cup {CfgReadFails}

PrefInit == InitFrom({example_com}, PrefConfigs)
PrefRefresh == \E raw \in PrefConfigs : refreshConfig(raw)

PrefNext ==
  \/ PrefRefresh

PrefSpec == PrefInit /\ [][PrefNext]_vars

(***************************************************************************)
(* LineSpec: the pointer moves along the line y = 0 and never to the left, *)
(* in steps shorter than the segment threshold, under configurations with  *)
(* jitterPx <= minSegmentPx.                                               *)
(***************************************************************************)
StepPx == 6
MaxSteps == 5
LinePts == { <<x * StepPx, 0>> : x \in 0..MaxSteps }

CfgSeg18 ==
  [EmptyStorage EXCEPT
     !.prefs = [minSegmentPx |-> Num(18), jitterPx |-> Num(4),
                sampleMinPx |-> Num(10), movedPx |-> Num(3)]]
CfgJitterIsSeg ==
  [EmptyStorage EXCEPT
     !.prefs = [minSegmentPx |-> Num(6), jitterPx |-> Num(6),
                sampleMinPx |-> Num(0), movedPx |-> Num(1)]]
CfgMovedLate ==
  [EmptyStorage EXCEPT
     !.prefs = [minSegmentPx |-> Num(6), jitterPx |-> Num(4),
                sampleMinPx |-> Num(3), movedPx |-> Num(20)]]
LineConfigs == {EmptyStorage, CfgCoarse, CfgSeg18, CfgJitterIsSeg, CfgMovedLate}

LineInit == InitFrom({example_com}, LineConfigs)
LineDown == \E p \in LinePts : startGesture(RightButton, FALSE, "div", p)
\* box.xhi is the rightmost position delivered so far: the pointer is there
LineMove == \E p \in LinePts : tracking /\ p[1] >= box.xhi /\ updateGesture("div", p)
LineUp == endGesture(RightButton)

LineNext ==
  \/ LineDown
  \/ LineMove
  \/ LineUp

LineSpec == LineInit /\ [][LineNext]_vars

(***************************************************************************)
(* new_tab: the URL a new tab is opened with.  A URL is a record of its    *)
(* scheme (with the colon) and the rest; NoUrl is the empty string.        *)
(***************************************************************************)
NoUrl == [scheme |-> "", rest |-> ""]
AboutBlank == [scheme |-> "about:", rest |-> "blank"]
NewTabPage == [scheme |-> "chrome:", rest |-> "//newtab/"]

Schemes == {"http:", "https:", "javascript:", "data:", "file:", "ftp:", "chrome:", "mailto:"}
PageSchemes == {"http:", "https:", "file:"}
\* the href attribute of the link: absent, empty, relative, or absolute
HrefAttrs ==
  { [k |-> "absent", scheme |-> "", rest |-> ""], [k |-> "relative", scheme |-> "", rest |-> ""] }
  \cup { [k |-> "relative", scheme |-> "", rest |-> r] : r \in {"page", "/a/b"} }
  \cup { [k |-> "absolute", scheme |-> sc, rest |-> r] : sc \in Schemes, r \in {"//x.test/", "x"} }

\* getLinkHref(target) of a link with this href attribute on a page of this scheme
linkHref(attr, pageScheme) ==
  IF attr.k = "absent" THEN NoUrl
  ELSE IF attr.scheme = "" /\ attr.rest = "" THEN NoUrl
  ELSE IF attr.k = "relative" THEN [scheme |-> pageScheme, rest |-> attr.rest]
  ELSE [scheme |-> attr.scheme, rest |-> attr.rest]

safeUrl(url) ==
  IF url = NoUrl THEN NoUrl
  ELSE IF url.scheme = "http:" \/ url.scheme = "https:" THEN url
  ELSE NoUrl

\* openNewTab(urlMaybe): the url of chrome.tabs.create
openNewTab(urlMaybe) ==
  LET url == safeUrl(urlMaybe) IN
  IF url # NoUrl THEN url ELSE NewTabPage

\* execAction("new_tab"): the URL opened, by the service worker when sendMessage
\* succeeds and by window.open when it throws
execNewTab(href, sendOk) ==
  IF sendOk THEN openNewTab(href)
  ELSE IF href # NoUrl THEN href ELSE AboutBlank

(***************************************************************************)
(* TabSpec: new_tab executed for a gesture started on every kind of link.  *)
(***************************************************************************)
TabInit ==
  /\ PageInit({example_com}, {EmptyStorage})
  /\ arg \in [attr : HrefAttrs, pageScheme : PageSchemes, sendOk : BOOLEAN]
  /\ ret = NoRet

NewTab ==
  /\ ret = NoRet
  /\ ret' = [k |-> "url", v |-> execNewTab(linkHref(arg.attr, arg.pageScheme), arg.sendOk)]
  /\ UNCHANGED <<locationHost, left, arg, config, session, lastTokenIndex, suppressContextOnce,
                 raf, frames, pending, emit, ghost>>

TabNext ==
  \/ NewTab

TabSpec == TabInit /\ [][TabNext]_vars

(***************************************************************************)
(* The left-button link swipe of the string-pattern content script.        *)
(***************************************************************************)
LEFT_THRESHOLD == 26
LEFT_DOMINANCE_Centi == 135
LEFT_MAX_VERTICAL == 220

PointerIds == {1, 2}
SwipeTargets == {"a", "div", "input"}
SwipePos == { <<0, 0>>, <<26, 0>>, <<26, 20>>, <<30, 0>>, <<0, 221>>, <<30, 221>> }
isTypingTarget(t) == t = "input"
getLinkHrefUnderPointer(t) == IF t = "a" THEN "https://x.test/a" ELSE ""

\* the state of the gesture content script, which the swipe does not touch
rightGesture ==
  <<locationHost, arg, ret, config, session, lastTokenIndex, suppressContextOnce,
    raf, frames, pending, emit, ghost>>

resetLeftSwipe(l) ==
  [l EXCEPT !.active = FALSE, !.pointerId = 0, !.start = <<>>, !.href = ""]

\* pointerdown listener: e.button, enabledOnSite && liveCfg.enabled, e.target,
\* e.pointerId, (e.clientX, e.clientY)
PointerDown(b, on, t, pid, p) ==
  /\ left' = IF b # 0 \/ ~on \/ isTypingTarget(t) \/ getLinkHrefUnderPointer(t) = ""
             THEN left
             ELSE [left EXCEPT !.active = TRUE, !.pointerId = pid, !.start = p,
                               !.href = getLinkHrefUnderPointer(t), !.triggered = FALSE]
  /\ UNCHANGED rightGesture

\* pointermove listener
PointerMove(pid, p) ==
  /\ left' =
       IF ~left.active \/ left.pointerId # pid THEN left
       ELSE LET dx == p[1] - left.start[1]
                dy == p[2] - left.start[2]
                adx == Abs(dx)
                ady == Abs(dy)
            IN IF ady > LEFT_MAX_VERTICAL THEN resetLeftSwipe(left)
               ELSE IF /\ ~left.triggered /\ dx > 0 /\ adx >= LEFT_THRESHOLD
                       /\ adx * 100 >= ady * LEFT_DOMINANCE_Centi
                    THEN [left EXCEPT !.triggered = TRUE]
                    ELSE left
  /\ UNCHANGED rightGesture

\* pointerup listener, up to its await of execAction("new_tab", leftHref), or to
\* its end when the swipe did not trigger
PointerUp(pid) ==
  /\ left.active /\ left.pointerId = pid
  /\ IF left.triggered /\ left.href # ""
     THEN /\ left.awaiting < MaxPending
          /\ left' = [left EXCEPT !.awaiting = @ + 1, !.opened = TRUE]
     ELSE left' = resetLeftSwipe(left)
  /\ UNCHANGED rightGesture

\* pointerup listener resumed after its await: setTimeout, resetLeftSwipe
PointerUpResume ==
  /\ left.awaiting > 0
  /\ left.timers < MaxPending
  /\ left' = [resetLeftSwipe(left) EXCEPT !.awaiting = @ - 1, !.timers = @ + 1]
  /\ UNCHANGED rightGesture

\* pointercancel listener
PointerCancel(pid) ==
  /\ left.active /\ left.pointerId = pid
  /\ left' = resetLeftSwipe(left)
  /\ UNCHANGED rightGesture

\* click listener
Click ==
  /\ left' = [left EXCEPT
                !.triggered = FALSE,
                !.opened = FALSE,
                !.lastClick = IF ~left.triggered THEN "passed"
                              ELSE IF left.opened THEN "suppressed"
                              ELSE "suppressed_unopened"]
  /\ UNCHANGED rightGesture

\* the callback of setTimeout(..., 350)
SwipeTimeout ==
  /\ left.timers > 0
  /\ left' = [left EXCEPT !.timers = @ - 1, !.triggered = FALSE]
  /\ UNCHANGED rightGesture

(***************************************************************************)
(* SwipeSpec: pointer and click events in any order.                       *)
(***************************************************************************)
SwipeInit == InitFrom({example_com}, {EmptyStorage})
SwipeDown ==
  \E b \in Buttons, on \in BOOLEAN, t \in SwipeTargets, pid \in PointerIds :
    PointerDown(b, on, t, pid, <<0, 0>>)
SwipeMove == \E pid \in PointerIds, p \in SwipePos : PointerMove(pid, p)
SwipeUp == \E pid \in PointerIds : PointerUp(pid)
SwipeCancel == \E pid \in PointerIds : PointerCancel(pid)

SwipeNext ==
  \/ SwipeDown
  \/ SwipeMove
  \/ SwipeUp
  \/ PointerUpResume
  \/ SwipeCancel
  \/ Click
  \/ SwipeTimeout

SwipeSpec == SwipeInit /\ [][SwipeNext]_vars

(***************************************************************************)
(* The options page: the mapping it stores when the mappings are saved,    *)
(* and the refresh of the content script that the stored change causes.    *)
(***************************************************************************)
MapPatterns == {"L", "R", "U", "D", "UR"}
MapActions == {"", "back", "new_tab"}
\* the select elements of the mapping grid: the action chosen for each pattern,
\* "" being the entry shown as (disabled)
MapSelects == [MapPatterns -> MapActions]

\* the object the click handler of saveMap stores as cfg.gestureMap
saveMapNext(selects) ==
  [pat \in { q \in DOMAIN selects : selects[q] # "" } |-> selects[pat]]

(***************************************************************************)
(* MapSpec: every choice of actions is saved, then read by the content     *)
(* script.                                                                 *)
(***************************************************************************)
MapInit ==
  /\ PageInit({example_com}, {EmptyStorage})
  /\ arg \in MapSelects
  /\ ret = NoRet

SaveMap ==
  /\ ret = NoRet
  /\ ret' = [k |-> "gestureMap", v |-> saveMapNext(arg)]
  /\ UNCHANGED <<locationHost, left, arg, config, session, lastTokenIndex, suppressContextOnce,
                 raf, frames, pending, emit, ghost>>

\* chrome.storage.onChanged in the content script after the save
MapRefresh ==
  /\ ret # NoRet
  /\ refreshConfig([EmptyStorage EXCEPT !.gestureMap = ret.v])

MapNext ==
  \/ SaveMap
  \/ MapRefresh

MapSpec == MapInit /\ [][MapNext]_vars

(***************************************************************************)
(* Properties.                                                             *)
(***************************************************************************)
EditableTargets == {"input"}
Idle(trk, mv, pts, toks, st) == ~trk /\ ~mv /\ pts = <<>> /\ toks = <<>> /\ st = "null"

\* A mousedown with these inputs qualifies to start a session, on a site that is
\* allowed or not and whose policy requires Alt or not.
Qualifies(b, alt, t, allowed, needAlt) ==
  /\ b = 2
  /\ t \notin EditableTargets
  /\ allowed
  /\ (needAlt => alt)

\* C1: the session goes from Idle to Tracking only by a mousedown of the right
\* button, on a target outside every editable element, with isAllowedOnThisSite()
\* true and Alt held when the host's policy is require_alt; a mousedown that
\* fails one of these leaves tracking, moved, points, tokens and startTarget
\* unchanged.
C1_StartOnlyWhenQualifying ==
  [][ LET allowed == isAllowedOnThisSite
          needAlt == getSitePolicy(locationHost) = "require_alt"
      IN /\ (~tracking /\ tracking') =>
              \E b \in Buttons, alt \in BOOLEAN, t \in Targets, p \in DownPos :
                Qualifies(b, alt, t, allowed, needAlt) /\ startGesture(b, alt, t, p)
         /\ (session' # session) =>
              \A b \in Buttons, alt \in BOOLEAN, t \in Targets :
                ~Qualifies(b, alt, t, allowed, needAlt) =>
                   \A p \in DownPos : ~startGesture(b, alt, t, p)
    ]_vars

\* A session started with Alt held on a host whose policy is require_alt.
C1_Witness ==
  /\ tracking /\ phase = "tracking" /\ points # <<>>
  /\ getSitePolicy(locationHost) = "require_alt"

\* C2: execAction is invoked at most once for every session.
C2_AtMostOneExecPerSession == execCur <= 1

\* C3: a mouseup at a Tracking session that has not moved resolves no pattern,
\* calls execAction for nothing, clears the session and leaves
\* suppressContextOnce false.
C3_ClickEndsSilently ==
  [][ \A b \in Buttons :
        (tracking /\ ~moved /\ endGesture(b)) =>
          /\ execCur' = execCur /\ emit' = NoEmit
          /\ Idle(tracking', moved', points', tokens', startTarget')
          /\ ~suppressContextOnce'
    ]_vars

\* A session ended by a mouseup before it had moved.
C3_Witness ==
  /\ phase = "click" /\ execCur = 0
  /\ Idle(tracking, moved, points, tokens, startTarget) /\ ~suppressContextOnce

\* The latest session was cancelled: nothing is emitted for it any more, and
\* nothing was emitted for it before if no mouseup of it had been handled.
CancelledSilent ==
  /\ phase \in {"cancelled", "cancelled_late"} => (~tracking /\ emit = NoEmit)
  /\ phase = "cancelled" => execCur = 0

\* C4: a mousemove over an editable element during Tracking clears the session in
\* that handler, and no action is emitted for the cancelled session, by that
\* handler or by any later event.
C4_CancelOnEditable ==
  [][ /\ \A t \in MoveTargets, p \in LinePos :
           (tracking /\ t \in EditableTargets /\ updateGesture(t, p)) =>
             /\ Idle(tracking', moved', points', tokens', startTarget')
             /\ emit' = NoEmit /\ execCur' = execCur
      /\ CancelledSilent'
    ]_vars

\* A session cancelled while Tracking, after it had moved.
C4_Witness == phase = "cancelled" /\ ~tracking /\ execCur = 0 /\ box.xhi > box.xlo

\* C5: a mousedown while a session is Tracking changes none of tracking, moved,
\* points, tokens and startTarget.
C5_SecondDownIgnored ==
  [][ \A b \in Buttons, alt \in BOOLEAN, t \in Targets, p \in DownPos :
        (tracking /\ startGesture(b, alt, t, p)) => UNCHANGED session
    ]_vars

\* C6: no two adjacent entries of tokens are equal.
C6_NoAdjacentEqual == \A i \in 1..(Len(tokens) - 1) : tokens[i] # tokens[i + 1]

\* A session with two tokens.
C6_Witness == tracking /\ Len(tokens) = 2

\* Every two positions of the latest session are closer than jitterPx: they lie in
\* a box whose diagonal is shorter, under a configuration that did not change.
BelowJitter ==
  /\ phase # "none" /\ ~cfgChanged
  /\ (box.xhi - box.xlo) * (box.xhi - box.xlo) + (box.yhi - box.ylo) * (box.yhi - box.ylo)
       < prefs.jitterPx * prefs.jitterPx

\* C7: a session whose positions are all closer to each other than jitterPx has
\* no token, and its finalization emits no action.
C7_BelowJitterNoTokenNoAction == BelowJitter => (tokens = <<>> /\ emit = NoEmit)

\* The anchor/threshold algorithm run once over a stored trajectory.
RECURSIVE BatchFrom(_, _, _, _, _, _)
BatchFrom(pts, i, anchorIndex, toks, minSeg, jitter) ==
  IF i > Len(pts) THEN toks
  ELSE LET d == dir8(pts[i][1] - pts[anchorIndex][1], pts[i][2] - pts[anchorIndex][2], jitter)
       IN IF DistGeq(pts[anchorIndex], pts[i], minSeg) /\ d # ""
          THEN BatchFrom(pts, i + 1, i,
                         IF toks # <<>> /\ toks[Len(toks)] = d THEN toks ELSE Append(toks, d),
                         minSeg, jitter)
          ELSE BatchFrom(pts, i + 1, anchorIndex, toks, minSeg, jitter)
BatchPattern(pts, minSeg, jitter) ==
  IF pts = <<>> THEN <<>> ELSE BatchFrom(pts, 2, 1, <<>>, minSeg, jitter)

\* C8: the tokens accumulated over the mousemoves of a session are those of the
\* algorithm run once over the stored trajectory, under the same thresholds.
C8_IncrementalEqualsBatch ==
  (tracking /\ ~cfgChanged) =>
     tokens = BatchPattern(points, prefs.minSegmentPx, prefs.jitterPx)

\* C9: every pattern mapped to forward, finalized on a link, emits
\* new_tab for the link's URL.
C9_ForwardOnLinkIsNewTab ==
  [][ \A b \in Buttons :
        (/\ tracking /\ moved /\ endGesture(b)
         /\ Lookup(gestureMap, Join(tokens)) = "forward"
         /\ getLinkHref(startTarget) # "") =>
          emit' = [action |-> "new_tab", href |-> getLinkHref(startTarget)]
    ]_vars

\* C10: a pattern that is not mapped to forward, finalized on a link, emits the
\* action it is mapped to, or none, and never the override's new_tab.
C10_OverrideOnlyForForward ==
  [][ \A b \in Buttons :
        (/\ tracking /\ moved /\ endGesture(b)
         /\ Lookup(gestureMap, Join(tokens)) # "forward"
         /\ getLinkHref(startTarget) # "") =>
          emit'.action = Lookup(gestureMap, Join(tokens))
    ]_vars

\* C11: a mouseup at a moved session whose pattern has no entry in the action map
\* calls execAction for nothing and leaves the session Idle.
C11_UnmappedPatternNoAction ==
  [][ \A b \in Buttons :
        (tracking /\ moved /\ Join(tokens) \notin DOMAIN gestureMap /\ endGesture(b)) =>
          /\ emit' = NoEmit /\ execCur' = execCur
          /\ Idle(tracking', moved', points', tokens', startTarget')
    ]_vars

\* A moved session finalized without an execAction call under a map that has no
\* empty action: its pattern had no entry.
C11_Witness ==
  /\ phase = "done" /\ execCur = 0 /\ ~cfgChanged
  /\ \A k \in DOMAIN gestureMap : gestureMap[k] # ""
  /\ Idle(tracking, moved, points, tokens, startTarget)

\* C12: when the awaited message of endGesture is rejected, or execAction throws,
\* endGesture still completes and leaves the session Idle, and the next accepted
\* mousedown starts a fresh session with no token.
C12_FailedActionLeavesIdle ==
  [][ /\ \A i \in 1..MaxPending :
           endGestureResume(i, FALSE) => Idle(tracking', moved', points', tokens', startTarget')
      /\ phase' = "failed" => Idle(tracking', moved', points', tokens', startTarget')
      /\ (phase = "failed" /\ tracking') =>
           (~moved' /\ tokens' = <<>> /\ Len(points') = 1 /\ startTarget' # "null")
    ]_vars

\* A session whose action failed after it was requested, back in Idle.
C12_Witness ==
  /\ phase = "failed" /\ execCur >= 1
  /\ Idle(tracking, moved, points, tokens, startTarget)

\* C13: a session whose mouseup is awaiting its action eventually reaches Idle,
\* given that every awaited message settles.
C13_AwaitingLeadsToIdle ==
  (phase = "awaiting") ~> (~tracking /\ points = <<>> /\ tokens = <<>>)

\* A session whose mouseup awaits the action sent to the service worker.
C13_Witness == phase = "awaiting" /\ tracking /\ moved /\ pending # <<>> /\ execCur = 1

\* The policy of the most specific entry for host h: the entry of h itself, else of
\* the longest suffix of h that follows a dot and is more than a top-level label.
NearestPolicy(h) ==
  IF h \in DOMAIN policies THEN policies[h]
  ELSE LET parents == { SubSeq(h, k + 1, Len(h)) : k \in { j \in DOMAIN h : h[j] = "." } }
           known == { d \in parents : d \in DOMAIN policies /\ \E j \in DOMAIN d : d[j] = "." }
       IN IF known = {} THEN "normal"
          ELSE policies[CHOOSE d \in known : \A u \in known : Len(u) <= Len(d)]

\* C14: getSitePolicy(host) is the policy of the exact host if it has an entry, else
\* of the longest proper parent domain that has one, the bare top-level label never
\* being tried, else normal.
C14_MostSpecificPolicyWins == getSitePolicy(locationHost) = NearestPolicy(locationHost)

\* A session started on a.gist.github.com while github.com and gist.github.com
\* have different policies: the one of gist.github.com applied.
C14_Witness ==
  /\ tracking /\ locationHost = a_gist_github_com
  /\ policies[github_com] = "disabled" /\ policies[gist_github_com] = "normal"

\* C15: on a host whose effective policy is require_alt a right mousedown without
\* Alt leaves the session fields unchanged; with Alt it starts a session when the
\* target is not editable and the site is allowed.
C15_RequireAltGate ==
  [][ NearestPolicy(locationHost) = "require_alt" =>
        \A t \in Targets, p \in DownPos :
          /\ startGesture(RightButton, FALSE, t, p) => UNCHANGED session
          /\ (startGesture(RightButton, TRUE, t, p) /\ t \notin EditableTargets
              /\ isAllowedOnThisSite) => (tracking' /\ points' = <<p>> /\ startTarget' = t)
    ]_vars

\* A session started with Alt on a host that has no entry of its own and inherits
\* require_alt from its parent domain.
C15_Witness ==
  /\ tracking /\ locationHost \notin DOMAIN policies
  /\ NearestPolicy(locationHost) = "require_alt"

\* host equals rule, or rule follows a dot of host, both normalized and non-empty.
RuleMatches(host, rule) ==
  LET h == normalizeHost(host)
      r == normalizeHost(rule)
  IN /\ h # <<>> /\ r # <<>>
     /\ (h = r \/ \E k \in DOMAIN h : h[k] = "." /\ SubSeq(h, k + 1, Len(h)) = r)
ListMatches == \E i \in DOMAIN list : RuleMatches(locationHost, list[i])

\* C16: with the extension enabled and the site policy not disabled,
\* isAllowedOnThisSite() is not-m in blacklist mode and m in whitelist mode, m being
\* whether some list entry matches the host.
C16_ModeInversion ==
  (enabled /\ NearestPolicy(locationHost) # "disabled") =>
     (isAllowedOnThisSite <=> IF mode = "blacklist" THEN ~ListMatches ELSE ListMatches)

\* A session started in whitelist mode on a host that a list entry matches.
C16_Witness == tracking /\ enabled /\ mode = "whitelist" /\ ListMatches

\* C17: hostMatchesRule(host, rule) holds iff the normalized host equals the
\* normalized rule or ends with a dot followed by it, both non-empty: example.com
\* matches example.com and sub.example.com, not notexample.com.
C17_SuffixMatchAtDot ==
  /\ \A i \in DOMAIN list :
       hostMatchesRule(locationHost, list[i]) <=> RuleMatches(locationHost, list[i])
  /\ hostMatchesRule(example_com, example_com)
  /\ hostMatchesRule(sub_example_com, example_com)
  /\ ~hostMatchesRule(notexample_com, example_com)

\* A session started in whitelist mode on sub.example.com, matched by the stored
\* rule " Example.COM ".
C17_Witness ==
  /\ tracking /\ mode = "whitelist" /\ locationHost = sub_example_com
  /\ list = <<PaddedExampleCom, github_com>>

\* C18: while the extension is disabled no step enters Tracking and every mousedown
\* leaves the session fields unchanged.
C18_DisabledNeverTracks ==
  [][ ~enabled =>
        /\ ~tracking => ~tracking'
        /\ \A b \in Buttons, alt \in BOOLEAN, t \in Targets, p \in DownPos :
             startGesture(b, alt, t, p) => UNCHANGED session
    ]_vars

\* The extension disabled on a host where every other gate would let a plain right
\* mousedown start a session.
C18_Witness ==
  /\ ~enabled /\ ~tracking /\ NearestPolicy(locationHost) = "normal"
  /\ (IF mode = "blacklist" THEN ~ListMatches ELSE ListMatches)

\* a and b are at least d apart
FarApart(a, b, d) ==
  (a[1] - b[1]) * (a[1] - b[1]) + (a[2] - b[2]) * (a[2] - b[2]) >= d * d

\* Consecutive stored points of a session under an unchanged configuration are at
\* least sampleMinPx apart.
StoredPointsApart ==
  (tracking /\ ~cfgChanged) =>
     \A i \in 1..(Len(points) - 1) : FarApart(points[i], points[i + 1], prefs.sampleMinPx)

\* C19: a mousemove during Tracking appends its position to points iff it is at
\* least sampleMinPx from the last stored point, and leaves points unchanged
\* otherwise; consecutive stored points are at least sampleMinPx apart.
C19_SamplerThreshold ==
  [][ /\ \A t \in MoveTargets \ EditableTargets, p \in Pos :
           (tracking /\ updateGesture(t, p)) =>
              points' = IF FarApart(points[Len(points)], p, prefs.sampleMinPx)
                        THEN Append(points, p) ELSE points
      /\ StoredPointsApart'
    ]_vars

\* A session that was delivered a position away from its start and dropped it.
C19_Witness ==
  /\ tracking /\ ~cfgChanged /\ Len(points) = 1
  /\ (box.xhi > box.xlo \/ box.yhi > box.ylo)

\* The direction whose sector centre (0, 45, 90, ... degrees) is nearest to the
\* vector (dx, dy), y growing downward: the 22.5 degree boundaries have the tangent
\* 0.414.
NearestSector(dx, dy) ==
  LET adx == IF dx < 0 THEN -dx ELSE dx
      ady == IF dy < 0 THEN -dy ELSE dy
      h == IF dx >= 0 THEN "R" ELSE "L"
      v == IF dy >= 0 THEN "D" ELSE "U"
  IN IF 1000 * ady < 414 * adx THEN h
     ELSE IF 1000 * adx < 414 * ady THEN v
     ELSE v \o h

\* C20: for every displacement that is not below the jitter threshold dir8 yields
\* the direction of the nearest of the eight sectors; an exact diagonal yields a
\* diagonal token.
C20_NearestOfEightSectors ==
  \A a \in Pos, b \in Pos :
    LET dx == b[1] - a[1]
        dy == b[2] - a[2]
        below == (IF dx < 0 THEN -dx ELSE dx) < prefs.jitterPx
                 /\ (IF dy < 0 THEN -dy ELSE dy) < prefs.jitterPx
    IN ~below => dir8(dx, dy, prefs.jitterPx) = NearestSector(dx, dy)

\* C21: normalizePattern is idempotent: normalizing what it returned for any
\* pattern within the bound returns the same string again.
C21_NormalizeIdempotent ==
  ret # NoRet => normalizePattern(ret.v) = ret.v
\* normalizePattern has rewritten a two-letter pattern
C21_Witness ==
  /\ ret # NoRet /\ arg = <<"R", "U">> /\ ret.v = <<"U", "R">>

Horizontal == {"L", "R"}
Vertical == {"U", "D"}
Reverse(str) == [i \in DOMAIN str |-> str[Len(str) + 1 - i]]
Deduplicated(str) ==
  /\ \A i \in DOMAIN str : str[i] \in Horizontal \cup Vertical
  /\ \A i \in 1..(Len(str) - 1) : str[i] # str[i + 1]
\* C22: a two-token pattern of one horizontal and one vertical token is returned
\* vertical token first whichever order the tokens came in, so both orders give
\* the same diagonal (RU and UR give UR, RD and DR give DR, LU and UL give UL,
\* LD and DL give DL); a de-duplicated pattern of three or more tokens is
\* returned unchanged.
C22_DiagonalEitherOrder ==
  ret # NoRet =>
    /\ \A h \in Horizontal, v \in Vertical :
         arg \in {<<h, v>>, <<v, h>>} =>
           ret.v = <<v, h>> /\ ret.v = normalizePattern(Reverse(arg))
    /\ (Len(arg) >= 3 /\ Deduplicated(arg)) => ret.v = arg
\* both cases have been computed: a horizontal-first pair, and a longer pattern
C22_Witness ==
  /\ ret # NoRet
  /\ arg = <<"L", "D">> /\ ret.v = <<"D", "L">>

\* the action endGesture would resolve from the action map in force at mousedown
SnapshotAction ==
  LET pattern == Join(tokens) IN
  IF pattern = "R" /\ startTarget # "null" /\ getLinkHref(startTarget) # ""
  THEN "new_tab"
  ELSE Lookup(startConfig[2], pattern)
\* C23: a session uses the thresholds and the action map in force at its
\* mousedown: when its mouseup finalizes it, the action executed (or none) is the
\* one the action map of the mousedown gives for its pattern, whatever refresh
\* completed in between.
C23_SessionUsesStartConfig ==
  [][ (tracking /\ moved /\ phase = "tracking" /\ phase' \in {"done", "failed", "awaiting"}) =>
        emit'.action = SnapshotAction ]_vars

\* C24: at most one animation-frame callback is pending and state.raf is non-zero
\* exactly while it is, so the mousemoves that arrive before the frame share
\* its single clear-and-draw.
C24_AtMostOneFramePending ==
  /\ Len(frames) <= 1
  /\ raf # 0 <=> Len(frames) = 1
\* a later call of scheduleTrailRender found the frame pending and requested none
C24_Witness ==
  /\ tracking /\ Len(points) = 2 /\ raf # 0 /\ frames = <<TRUE>>

\* C25: a stored minSegmentPx, jitterPx, sampleMinPx or movedPx that is not a
\* finite number is replaced by the default of that field (8, 4, 3, 3), whatever
\* the other fields hold.
C25_NonNumericGivesDefault ==
  ret # NoRet =>
    /\ arg.prefs.minSegmentPx = NaN => ret.v.prefs.minSegmentPx = DefMinSegmentPx
    /\ arg.prefs.jitterPx = NaN => ret.v.prefs.jitterPx = DefJitterPx
    /\ arg.prefs.sampleMinPx = NaN => ret.v.prefs.sampleMinPx = DefSampleMinPx
    /\ arg.prefs.movedPx = NaN => ret.v.prefs.movedPx = DefMovedPx

\* the entries handed to the save or the import
GivenEntries ==
  IF arg.op = "save" THEN splitLines(arg.raw)
  ELSE arg.list.items
CleanEntry(h) ==
  /\ h # <<>>
  /\ h[1] # " " /\ h[Len(h)] # " "
  /\ \A i \in DOMAIN h : h[i] \notin UpperCase /\ h[i] # "/"
  /\ \A i \in 1..(Len(h) - 2) : <<h[i], h[i + 1], h[i + 2]>> # <<":", "/", "/">>
\* C26: the list stored by a save or an import holds only trimmed lower-case
\* non-empty entries without "://" and "/", each once; an invalid entry is
\* dropped and the valid entries given with it are stored.
C26_StoredListIsClean ==
  ret # NoRet =>
    /\ \A i \in DOMAIN ret.v : CleanEntry(ret.v[i])
    /\ \A i, j \in DOMAIN ret.v : i # j => ret.v[i] # ret.v[j]
    /\ \A i \in DOMAIN GivenEntries :
         LET h == GivenEntries[i] IN
         (h # <<>> /\ \A k \in DOMAIN h : h[k] \notin {" ", "/"}) =>
           \E j \in DOMAIN ret.v : ret.v[j] = toLowerCase(h)
\* a save of a text with a repeated entry and an invalid line between
C26_Witness ==
  /\ ret # NoRet /\ arg.op = "save"
  /\ arg.raw = <<"E", "\n", "/", "\n", "E">>
  /\ ret.v = << <<"e">> >>
\* an import of an array with an invalid entry
C26_WitnessImport ==
  /\ ret # NoRet /\ arg.op = "import"
  /\ arg.list.items = << <<"E">>, <<":", "/", "/">> >>
  /\ ret.v = << <<"e">> >>

\* the point updateGesture measures the next segment from
AnchorOf(pts, toks, lti) ==
  LET anchorIndex == IF Len(toks) = 0 THEN 0 ELSE lti
  IN IF anchorIndex + 1 \in DOMAIN pts THEN pts[anchorIndex + 1] ELSE pts[1]
\* C27: a mousemove whose position is at least minSegmentPx from the anchor moves
\* the anchor to the current sample, whether or not a token was appended.
C27_AnchorAdvancesOnThreshold ==
  [][ \A p \in Pos :
        (/\ tracking
         /\ updateGesture("div", p)
         /\ DistGeq(AnchorOf(points', tokens, lastTokenIndex), p, prefs.minSegmentPx))
        => AnchorOf(points', tokens', lastTokenIndex') = points'[Len(points')] ]_vars

\* C28: the endGesture call of an earlier session, resuming after its awaited
\* action, leaves the session that is Tracking now as it is.
C28_OldResumeLeavesSession ==
  [][ \A i \in 1..MaxPending, ok \in BOOLEAN :
        (/\ tracking /\ phase = "tracking"
         /\ i \in DOMAIN pending /\ pending[i] = "old"
         /\ endGestureResume(i, ok))
        => UNCHANGED session ]_vars

\* C29: a mouseup of a button other than the right one, at a Tracking session,
\* executes no action and leaves the session as it is.
C29_OtherButtonUpIgnored ==
  [][ \A b \in Buttons \ {RightButton} :
        (tracking /\ phase = "tracking" /\ endGesture(b))
        => emit' = NoEmit /\ UNCHANGED session ]_vars

\* C30: refreshConfig changes enabled, mode, prefs, gestureMap, list and policies
\* and nothing else of the state: tracking, moved, points, tokens,
\* _lastTokenIndex, startTarget and suppressContextOnce are as before, also in
\* the middle of a Tracking session.
\* (every step leaves them alone or is no step of refreshConfig)
C30_RefreshKeepsSession ==
  [][ \/ UNCHANGED <<tracking, moved, points, tokens, lastTokenIndex, startTarget,
                     suppressContextOnce>>
      \/ \A raw \in StoredConfigs : ~refreshConfig(raw) ]_vars
\* a refresh changed the configuration of a session that is Tracking with a token
C30_Witness ==
  /\ tracking /\ phase = "tracking" /\ cfgChanged
  /\ Len(points) = 2 /\ tokens # <<>> /\ startConfig # <<prefs, gestureMap>>

\* C31: in every state, at start and after any number of refreshes, the
\* thresholds of state.prefs lie in their ranges: minSegmentPx in 6..60,
\* jitterPx in 0..20, sampleMinPx in 0..10, movedPx in 1..20.
C31_PrefsInRange ==
  /\ prefs.minSegmentPx \in MinSegLo..MinSegHi
  /\ prefs.jitterPx \in JitterLo..JitterHi
  /\ prefs.sampleMinPx \in SampleLo..SampleHi
  /\ prefs.movedPx \in MovedLo..MovedHi
\* thresholds that were clamped from above and from below
C31_Witness ==
  /\ prefs.minSegmentPx = MinSegHi /\ prefs.jitterPx = JitterHi
  /\ prefs.sampleMinPx = SampleLo /\ prefs.movedPx = MovedLo

\* C32: with jitterPx <= minSegmentPx, a session whose pointer has moved along
\* y = 0, never to the left, over at least minSegmentPx in all has exactly the
\* pattern R, however the distance was split into moves.
C32_RightwardGivesR ==
  (/\ tracking /\ phase = "tracking"
   /\ prefs.jitterPx <= prefs.minSegmentPx
   /\ box.xhi - box.xlo >= prefs.minSegmentPx)
  => Join(tokens) = "R"
\* minSegmentPx 18, jitterPx 4: the token came with a move that was not sampled,
\* after a shorter move that was
C32_Witness ==
  /\ tracking /\ phase = "tracking" /\ tokens = <<"R">>
  /\ prefs.minSegmentPx = 18 /\ prefs.jitterPx = 4
  /\ Len(points) = 2 /\ points[2][1] < box.xhi
  /\ box.xhi - box.xlo >= 18

\* C33: a right-button press that does not enter Tracking has no suppression
\* armed for it: the context-menu event that follows it is let through.
C33_NoSuppressionWithoutGesture ==
  [][ ~(/\ ~tracking /\ ~tracking' /\ suppressContextOnce'
        /\ \E alt \in BOOLEAN, t \in Targets, p \in DownPos :
             startGesture(RightButton, alt, t, p)) ]_vars

\* C34: whatever link the gesture started on, new_tab opens an http: or https:
\* URL, the new-tab page or the blank page, through the service worker and
\* through the window.open fallback.
C34_NewTabOpensWebOrBlank ==
  ret # NoRet =>
    \/ ret.v.scheme \in {"http:", "https:"}
    \/ ret.v \in {NewTabPage, AboutBlank}

\* C35: the click listener suppresses a click only when a pointerup of a
\* triggered swipe has sent new_tab since the previous click; a swipe that
\* triggered and was abandoned causes no click to be suppressed.
C35_ClickSuppressedOnlyAfterOpen == left.lastClick # "suppressed_unopened"

\* the session fields agree with the tracking flag
SessionShape ==
  /\ ~tracking => (points = <<>> /\ tokens = <<>> /\ startTarget = "null")
  /\ tracking => points # <<>>
  /\ (tracking /\ tokens # <<>>) => lastTokenIndex \in 0..(Len(points) - 1)
\* C36: while tracking is false points and tokens are empty and startTarget is
\* null; while it is true points is non-empty and, once there is a token,
\* _lastTokenIndex is an index into points; the step that gives a session its
\* first token assigns it, so the index is never one left by an earlier session.
C36_SessionFieldsConsistent ==
  /\ []SessionShape
  /\ [][ (tokens = <<>> /\ tokens' # <<>>) =>
           (tracking' /\ lastTokenIndex' = Len(points') - 1) ]_vars
\* a session with a token, started while the endGesture of an earlier one is
\* still suspended
C36_Witness ==
  /\ tracking /\ phase = "tracking" /\ tokens # <<>>
  /\ pending # <<>> /\ pending[1] = "old"

\* C37: after the mouseup or the cancel that ended a session has cleared the
\* trail, no animation-frame callback draws the trajectory of that session, also
\* while endGesture is suspended in its awaited action.
C37_NoDrawAfterEnd ==
  [][ (RafFire /\ phase \in {"awaiting", "done", "failed", "click", "cancelled",
                            "cancelled_late", "destroyed"})
      => ~drawCometDraws(points) ]_vars

\* C38: a session that has a token has its moved flag set, so the mouseup that
\* arrives at it resolves the pattern instead of treating it as a click.
C38_TokenImpliesMoved ==
  (tracking /\ phase = "tracking" /\ tokens # <<>>) => moved

\* C39: after the options page saved a mapping in which a default pattern (L, R,
\* U or D) is (disabled) and the content script refreshed its configuration, the
\* content script resolves that pattern to no action.
C39_DisabledDefaultHasNoAction ==
  [][ MapRefresh =>
        \A pat \in {"L", "R", "U", "D"} :
          arg[pat] = "" => Lookup(gestureMap', pat) = "" ]_vars
====
